---- MODULE Spec2Model ----
(***************************************************************************)
(* A model of parllama's ThemeManager (src/parllama/theme_manager.py).     *)
(*                                                                         *)
(* Strings that the code takes apart (theme names, paths, file names) are  *)
(* sequences of tokens: the separator "/" is a token of its own, a chunk   *)
(* that starts with "." (".json", ".txt") is a token, and every other      *)
(* token is a run of characters holding no "/" and no ".".  Str flattens a *)
(* token sequence into the string the code sees; two strings are compared  *)
(* through Str.                                                            *)
(*                                                                         *)
(* Every method of ThemeManager is one action.  Each action records what   *)
(* it did in the observation variables lastOp, trace, outcome and result.  *)
(***************************************************************************)
EXTENDS Integers, Sequences, FiniteSets, TLC

VARIABLES
    app,              \* self.app is set (TRUE) or None (FALSE)
    available_themes, \* app.available_themes: sequence of [key, attrs], dict order
    active,           \* app.theme
    disk,             \* the theme folder on disk: [exists, files]
    fallbackName,     \* settings.theme_fallback_name (a token sequence)
    edits,            \* number of edits made to theme files after start-up
    lastOp,           \* the operation performed last: [op, arg]
    trace,            \* events of the last operation, in order
    outcome,          \* "ok", or the exception that left the last operation
    result            \* value returned by the last operation (a sequence)

vars == <<app, available_themes, active, disk, fallbackName, edits,
          lastOp, trace, outcome, result>>

(***************************************************************************)
(* Bounds                                                                  *)
(***************************************************************************)
MaxEdits == 1        \* edits of theme files between operations
RecursionLimit == 3  \* depth at which the interpreter raises RecursionError

(***************************************************************************)
(* Strings and paths                                                       *)
(***************************************************************************)
Sep == "/"

RECURSIVE Str(_)
Str(p) == IF p = <<>> THEN "" ELSE Head(p) \o Str(Tail(p))

ThemeModes == <<"dark", "light">>

ThemeFolder == <<Sep, "data", Sep, "themes">>

ParJson == <<"par", ".json">>

LastSep(p) ==
    LET S == {i \in 1..Len(p) : p[i] = Sep}
    IN  IF S = {} THEN 0 ELSE CHOOSE i \in S : \A j \in S : j <= i

\* os.path.basename(p): everything after the last separator.
Basename(p) == SubSeq(p, LastSep(p) + 1, Len(p))

\* pathlib's Path(folder) / name: an absolute right-hand side replaces the folder.
PathJoin(folder, name) ==
    IF name # <<>> /\ Head(name) = Sep THEN name ELSE folder \o <<Sep>> \o name

\* theme_name as load_theme uses it after line 78.
BasenameVerbatim(theme_name) == theme_name
ThemeBaseName(theme_name) == Basename(theme_name)

\* theme_file of load_theme, line 79.
ThemeFile(base) == PathJoin(ThemeFolder, base \o <<".json">>)

\* f"{theme_name}_{mode}", line 92.
ThemeKeyNoMode(base, mode) == Str(base)
ThemeKey(base, mode) == Str(base) \o "_" \o mode

\* str.lower() of one token.
LowerTok(t) ==
    CASE t = ".JSON" -> ".json"
      [] t = "X"     -> "x"
      [] OTHER       -> t

IsDotTok(t) == t \in {".json", ".JSON", ".txt", ".b"}

\* file.lower().endswith(".json"), line 113.
EndsWithJson(file) == file # <<>> /\ LowerTok(file[Len(file)]) = ".json"

\* os.path.splitext(file)[0], line 114: a leading dot chunk is no extension.
SplitExtRoot(file) ==
    IF Len(file) >= 2 /\ IsDotTok(file[Len(file)])
    THEN SubSeq(file, 1, Len(file) - 1)
    ELSE file

(***************************************************************************)
(* Theme definition files                                                  *)
(***************************************************************************)
\* What a mode key of a definition holds: nothing, an attribute mapping the
\* Theme constructor accepts (two different ones), or a mapping it rejects
\* (it holds the key "name", which collides with the name= keyword).
AttrOpt == {"absent", "v1", "v2", "bad"}

Json(d, l) == [kind |-> "json", dark |-> d, light |-> l]
Broken(k)  == [kind |-> k, dark |-> "absent", light |-> "absent"]

\* The bundled themes/par.json, line 64.
BundledDefault == Json("v1", "v1")

ValidDefs == {Json("v1", "v1"), Json("absent", "v2"), Json("v2", "absent")}

Contents == ValidDefs \cup
            {Json("absent", "absent"), Json("bad", "v1"),
             Broken("unparsable"), Broken("oversize"), Broken("unreadable")}

CustomJson == <<"custom", ".json">>
NotesTxt   == <<"notes", ".txt">>
JsonFiles  == {ParJson, CustomJson}

Disks ==
    {[exists |-> FALSE, files |-> <<>>]} \cup
    {[exists |-> TRUE, files |-> f] :
        f \in UNION {[S -> Contents] : S \in SUBSET JsonFiles}} \cup
    {[exists |-> TRUE, files |-> (NotesTxt :> Broken("text")) @@ f] :
        f \in UNION {[S -> {BundledDefault, Json("absent", "absent")}] :
                        S \in SUBSET JsonFiles}}

FallbackNames == {<<"par">>, <<"custom">>}

InputNames ==
    {<<"par">>, <<"custom">>, <<"missing">>,
     <<"..", Sep, "..", Sep, "etc", Sep, "passwd">>,
     <<Sep, "tmp", Sep, "custom">>,
     <<"custom", Sep>>}

(***************************************************************************)
(* SecureFileOperations.read_json_file                                     *)
(***************************************************************************)
ReadJsonFile(path, d) ==
    LET hits == IF d.exists
                THEN {f \in DOMAIN d.files :
                         Str(ThemeFolder \o <<Sep>> \o f) = Str(path)}
                ELSE {}
    IN  IF hits = {}
        THEN [ok |-> FALSE, err |-> "NotFound", def |-> Broken("none")]
        ELSE LET c == d.files[CHOOSE f \in hits : TRUE]
             IN  CASE c.kind = "json" ->
                        [ok |-> TRUE, err |-> "none", def |-> c]
                   [] c.kind = "unparsable" ->
                        [ok |-> FALSE, err |-> "ParseError", def |-> c]
                   [] c.kind = "unreadable" ->
                        [ok |-> FALSE, err |-> "OSError", def |-> c]
                   [] OTHER ->
                        [ok |-> FALSE, err |-> "AccessDenied", def |-> c]

(***************************************************************************)
(* The host runtime                                                        *)
(***************************************************************************)
Keys(th) == [i \in 1..Len(th) |-> th[i].key]

HasKey(th, k) == \E i \in 1..Len(th) : th[i].key = k

AttrsOf(th, k) == th[CHOOSE i \in 1..Len(th) : th[i].key = k].attrs

\* Theme(name=..., **theme_def[mode]), lines 91-94.
ThemeCtorAccepts(attrs) == attrs \in {"v1", "v2"}

\* app.register_theme(theme): a dict assignment under theme.name.
RegisterReplacing(th, k, attrs) == <<[key |-> k, attrs |-> attrs]>>
RegisterTheme(th, k, attrs) ==
    IF HasKey(th, k)
    THEN [i \in 1..Len(th) |->
            IF th[i].key = k THEN [key |-> k, attrs |-> attrs] ELSE th[i]]
    ELSE Append(th, [key |-> k, attrs |-> attrs])

BuiltinThemes == <<[key |-> "textual-dark", attrs |-> "builtin"]>>

(***************************************************************************)
(* Events                                                                  *)
(***************************************************************************)
Ev(e, what, depth) == [ev |-> e, what |-> what, depth |-> depth]

Emit(st, e) == [st EXCEPT !.trace = Append(@, e)]

Raise(st, x) == [st EXCEPT !.exc = x]

EventsOf(tr, e) == {i \in 1..Len(tr) : tr[i].ev = e}

(***************************************************************************)
(* ThemeManager.load_theme                                                 *)
(***************************************************************************)
\* The except clause of line 96: (SecureFileOpsError, OSError).
CaughtByLoadTheme(err) == err \in {"NotFound", "ParseError", "AccessDenied", "OSError"}

\* The guard of line 99.
FallbackAlways(theme_name, fb) == TRUE
FallbackNever(theme_name, fb) == FALSE
FallbackWanted(theme_name, fb) == Str(theme_name) # Str(fb)

\* The loop of lines 88-95 from mode number i on.
RECURSIVE RegisterModes(_, _, _, _, _)
RegisterModes(i, base, def, st, depth) ==
    IF i > Len(ThemeModes) THEN st
    ELSE LET mode == ThemeModes[i]
         IN  IF def[mode] = "absent"
             THEN RegisterModes(i + 1, base, def, st, depth)
             ELSE IF ~ThemeCtorAccepts(def[mode])
             THEN Raise(st, "TypeError")
             ELSE RegisterModes(i + 1, base, def,
                    [st EXCEPT
                       !.themes = RegisterTheme(@, ThemeKey(base, mode), def[mode]),
                       !.trace = Append(@, Ev("register", <<ThemeKey(base, mode)>>, depth))],
                    depth)

\* Lines 85-95: the body of the try block after the file was read.
ValidateAndRegister(base, def, st, depth) ==
    IF def.dark = "absent" /\ def.light = "absent"
    THEN Raise(st, "ThemeModeError")
    ELSE RegisterModes(1, base, def, st, depth)

\* load_theme(name) run on st = [themes, trace, exc]; appSet is self.app.
RECURSIVE LoadThemeRun(_, _, _, _, _, _)
LoadThemeRun(name, st, d, fb, appSet, depth) ==
    LET s0 == Emit(st, Ev("call", name, depth))
    IN
    IF depth > RecursionLimit THEN Raise(s0, "RecursionError")
    ELSE IF ~appSet THEN Raise(s0, "AppNotInitialized")
    ELSE
    LET theme_name == ThemeBaseName(name)
        theme_file == ThemeFile(theme_name)
        r  == ReadJsonFile(theme_file, d)
        s1 == Emit(s0, Ev("read", theme_file, depth))
    IN
    IF r.ok THEN ValidateAndRegister(theme_name, r.def, s1, depth)
    ELSE IF ~CaughtByLoadTheme(r.err) THEN Raise(s1, r.err)
    ELSE
    LET s2 == Emit(s1, Ev("log_error", <<Str(theme_name)>>, depth))
    IN
    IF FallbackWanted(theme_name, fb)
    THEN LET n == LoadThemeRun(fb, s2, d, fb, appSet, depth + 1)
         IN  IF n.exc # "none"
             THEN Emit(Raise(n, "none"), Ev("log_fallback_failed", <<Str(fb)>>, depth))
             ELSE n
    ELSE s2

(***************************************************************************)
(* ThemeManager.ensure_default_theme                                       *)
(***************************************************************************)
\* Lines 70-71: the copy of the bundled file.
SeedOverwriting(files) == (ParJson :> BundledDefault) @@ files
SeedDefault(files) ==
    IF ParJson \in DOMAIN files THEN files
    ELSE (ParJson :> BundledDefault) @@ files

EnsureRecreating(d) == [exists |-> TRUE, files |-> SeedDefault(<<>>)]
EnsureDefaultThemeRun(d) ==
    LET made == IF d.exists THEN d ELSE [exists |-> TRUE, files |-> <<>>]
    IN  [made EXCEPT !.files = SeedDefault(@)]

(***************************************************************************)
(* ThemeManager.load_themes                                                *)
(***************************************************************************)
Perms(S) ==
    {s \in [1..Cardinality(S) -> S] : \A i, j \in 1..Cardinality(S) : i # j => s[i] # s[j]}

\* The loop of lines 112-114 over the listing `order`, from entry i on.
RECURSIVE LoadEach(_, _, _, _, _, _)
LoadEach(i, order, st, d, fb, appSet) ==
    IF i > Len(order) \/ st.exc # "none" THEN st
    ELSE IF EndsWithJson(order[i])
    THEN LoadEach(i + 1, order,
                  LoadThemeRun(ThemeFolder \o <<Sep>> \o SplitExtRoot(order[i]),
                               st, d, fb, appSet, 0),
                  d, fb, appSet)
    ELSE LoadEach(i + 1, order, st, d, fb, appSet)

Start(th) == [themes |-> th, trace |-> <<>>, exc |-> "none"]

Outcome(st) == IF st.exc = "none" THEN "ok" ELSE st.exc

(***************************************************************************)
(* Actions                                                                 *)
(***************************************************************************)
Init ==
    /\ app = FALSE
    /\ available_themes = BuiltinThemes
    /\ active = "textual-dark"
    /\ disk \in Disks
    /\ fallbackName \in FallbackNames
    /\ edits = 0
    /\ lastOp = [op |-> "init", arg |-> <<>>]
    /\ trace = <<>>
    /\ outcome = "ok"
    /\ result = <<>>

\* load_themes(), lines 108-114, for one order of os.listdir.
LoadThemesStep(opname, appSet) ==
    LET d1 == EnsureDefaultThemeRun(disk)
    IN  \E order \in Perms(DOMAIN d1.files) :
          LET st == LoadEach(1, order, Start(available_themes), d1, fallbackName, appSet)
          IN  /\ disk' = d1
              /\ available_themes' = st.themes
              /\ trace' = st.trace
              /\ outcome' = Outcome(st)
              /\ lastOp' = [op |-> opname, arg |-> order]
              /\ result' = <<>>

\* set_app(app), lines 57-60.
SetApp ==
    \E a \in BOOLEAN :
        /\ a \/ ~app
        /\ app' = a
        /\ LoadThemesStep(IF a THEN "set_app" ELSE "set_app_none", a)
        /\ UNCHANGED <<active, fallbackName, edits>>

LoadThemes ==
    /\ LoadThemesStep("load_themes", app)
    /\ UNCHANGED <<app, active, fallbackName, edits>>

\* ensure_default_theme(), lines 62-71.
EnsureDefaultTheme ==
    /\ disk' = EnsureDefaultThemeRun(disk)
    /\ lastOp' = [op |-> "ensure_default_theme", arg |-> <<>>]
    /\ trace' = <<>>
    /\ outcome' = "ok"
    /\ result' = <<>>
    /\ UNCHANGED <<app, available_themes, active, fallbackName, edits>>

\* load_theme(theme_name), lines 73-106.
LoadTheme ==
    \E name \in InputNames :
        LET st == LoadThemeRun(name, Start(available_themes), disk, fallbackName, app, 0)
        IN  /\ available_themes' = st.themes
            /\ trace' = st.trace
            /\ outcome' = Outcome(st)
            /\ lastOp' = [op |-> "load_theme", arg |-> name]
            /\ result' = <<>>
            /\ UNCHANGED <<app, active, disk, fallbackName, edits>>

QueryKeys == {"par_dark", "custom_light", "nope"}

\* get_theme(theme_name), lines 116-120.
GetTheme ==
    \E k \in QueryKeys :
        /\ lastOp' = [op |-> "get_theme", arg |-> <<k>>]
        /\ trace' = <<>>
        /\ outcome' = IF ~app THEN "AppNotInitialized"
                      ELSE IF ~HasKey(available_themes, k) THEN "KeyError"
                      ELSE "ok"
        /\ result' = IF app /\ HasKey(available_themes, k)
                     THEN <<AttrsOf(available_themes, k)>> ELSE <<>>
        /\ UNCHANGED <<app, available_themes, active, disk, fallbackName, edits>>

\* list_themes() as a value: lines 122-127.
ListThemesUnchecked(appSet, th) == [exc |-> "ok", val |-> Keys(th)]
ListThemesReversed(appSet, th) ==
    IF ~appSet THEN [exc |-> "AppNotInitialized", val |-> <<>>]
    ELSE [exc |-> "ok", val |-> [i \in 1..Len(th) |-> th[Len(th) + 1 - i].key]]
ListThemesRun(appSet, th) ==
    IF ~appSet THEN [exc |-> "AppNotInitialized", val |-> <<>>]
    ELSE [exc |-> "ok", val |-> Keys(th)]

ListThemes ==
    LET r == ListThemesRun(app, available_themes)
    IN  /\ lastOp' = [op |-> "list_themes", arg |-> <<>>]
        /\ trace' = <<>>
        /\ outcome' = r.exc
        /\ result' = r.val
        /\ UNCHANGED <<app, available_themes, active, disk, fallbackName, edits>>

\* theme_select_options(), lines 129-131.
ThemeSelectOptions ==
    LET r == ListThemesRun(app, available_themes)
    IN  /\ lastOp' = [op |-> "theme_select_options", arg |-> <<>>]
        /\ trace' = <<>>
        /\ outcome' = r.exc
        /\ result' = [i \in 1..Len(r.val) |-> <<r.val[i], r.val[i]>>]
        /\ UNCHANGED <<app, available_themes, active, disk, fallbackName, edits>>

\* change_theme(theme_name), lines 133-137; the runtime rejects unknown names.
ChangeTheme ==
    \E k \in {"par_dark", "nope"} :
        /\ lastOp' = [op |-> "change_theme", arg |-> <<k>>]
        /\ trace' = <<>>
        /\ outcome' = IF ~app THEN "AppNotInitialized"
                      ELSE IF ~HasKey(available_themes, k) THEN "InvalidThemeError"
                      ELSE "ok"
        /\ active' = IF app /\ HasKey(available_themes, k) THEN k ELSE active
        /\ result' = <<>>
        /\ UNCHANGED <<app, available_themes, disk, fallbackName, edits>>

\* The user rewrites a theme file of the running application between two
\* operations.
EditThemeFile ==
    /\ edits < MaxEdits
    /\ app
    /\ disk.exists
    /\ \E f \in JsonFiles, c \in ValidDefs :
          /\ f \in DOMAIN disk.files
          /\ disk.files[f] \in ValidDefs
          /\ disk.files[f] # c
          /\ disk' = [disk EXCEPT !.files[f] = c]
          /\ lastOp' = [op |-> "edit", arg |-> f]
    /\ edits' = edits + 1
    /\ trace' = <<>>
    /\ outcome' = "ok"
    /\ result' = <<>>
    /\ UNCHANGED <<app, available_themes, active, fallbackName>>

Next ==
    \/ SetApp
    \/ LoadThemes
    \/ EnsureDefaultTheme
    \/ LoadTheme
    \/ GetTheme
    \/ ListThemes
    \/ ThemeSelectOptions
    \/ ChangeTheme
    \/ EditThemeFile

Spec == Init /\ [][Next]_vars

(***************************************************************************)
(* A second specification: file names with an upper-case extension, with   *)
(* several dots and without a stem, and a configured fallback name that    *)
(* carries a directory component.                                          *)
(***************************************************************************)
XJson   == <<"X", ".JSON">>
DotJson == <<".json">>
ABJson  == <<"a", ".b", ".json">>

WideFiles == {ParJson, XJson, DotJson, ABJson, NotesTxt}

WideDisks ==
    {[exists |-> TRUE, files |-> f] :
        f \in UNION {[S -> {BundledDefault, Broken("unparsable")}] :
                        S \in {T \in SUBSET WideFiles : Cardinality(T) <= 2}}}

WideFallbackNames == {<<"par">>, <<"sub", Sep, "par">>}

InitWide ==
    /\ app = FALSE
    /\ available_themes = BuiltinThemes
    /\ active = "textual-dark"
    /\ disk \in WideDisks
    /\ fallbackName \in WideFallbackNames
    /\ edits = 0
    /\ lastOp = [op |-> "init", arg |-> <<>>]
    /\ trace = <<>>
    /\ outcome = "ok"
    /\ result = <<>>

NextWide ==
    \/ SetApp
    \/ LoadThemes
    \/ LoadTheme

SpecWide == InitWide /\ [][NextWide]_vars

(***************************************************************************)
(* Vocabulary of the properties                                            *)
(***************************************************************************)
Modes == {"dark", "light"}

FileOf(name) == Basename(name) \o <<".json">>

OnDisk(f) == disk.exists /\ f \in DOMAIN disk.files

ReadsOk(f) == OnDisk(f) /\ disk.files[f].kind = "json"

PresentModes(def) == {m \in Modes : def[m] # "absent"}

\* A readable definition with a mode, each present mode holding attributes
\* the theme constructor accepts.
WellFormed(f) ==
    /\ ReadsOk(f)
    /\ PresentModes(disk.files[f]) # {}
    /\ \A m \in PresentModes(disk.files[f]) : disk.files[f][m] \in {"v1", "v2"}

IsBatch(op) == op \in {"load_themes", "set_app"}

IsFallback(name) == Str(Basename(name)) = Str(fallbackName)

CountOf(tr, e) == Cardinality(EventsOf(tr, e))

IsTopRegister(e) == e.ev = "register" /\ e.depth = 0

RegisteredKeys(tr) ==
    LET s == SelectSeq(tr, IsTopRegister) IN [i \in 1..Len(s) |-> s[i].what[1]]

ExpectedKeys(base, def) ==
    (IF def.dark # "absent" THEN <<Str(base) \o "_dark">> ELSE <<>>) \o
    (IF def.light # "absent" THEN <<Str(base) \o "_light">> ELSE <<>>)

(***************************************************************************)
(* C1: a definition file that is read but holds neither "dark" nor "light" *)
(* never makes load_theme or load_themes raise: both return normally.      *)
(***************************************************************************)
C1_ModeErrorNeverEscapes ==
    /\ (lastOp.op = "load_theme" /\ app /\ ReadsOk(FileOf(lastOp.arg))
          /\ PresentModes(disk.files[FileOf(lastOp.arg)]) = {})
       => outcome = "ok"
    /\ (IsBatch(lastOp.op) /\ app
          /\ \E f \in JsonFiles : ReadsOk(f) /\ PresentModes(disk.files[f]) = {})
       => outcome = "ok"

(***************************************************************************)
(* C2: for a definition that is read and holds at least one mode,          *)
(* load_theme registers exactly the present modes, once each, under        *)
(* "<base>_<mode>", dark before light.                                     *)
(***************************************************************************)
C2_OneRegistrationPerPresentMode ==
    (lastOp.op = "load_theme" /\ app /\ ReadsOk(FileOf(lastOp.arg))
       /\ PresentModes(disk.files[FileOf(lastOp.arg)]) # {})
    => /\ RegisteredKeys(trace) =
            ExpectedKeys(Basename(lastOp.arg), disk.files[FileOf(lastOp.arg)])
       /\ \A m \in PresentModes(disk.files[FileOf(lastOp.arg)]) :
            HasKey(available_themes, Str(Basename(lastOp.arg)) \o "_" \o m)

(***************************************************************************)
(* C3: when the file of a name other than the fallback cannot be read and  *)
(* the fallback file cannot be read either, load_theme reads at most two   *)
(* files, logs one error per failure, registers nothing and returns        *)
(* normally.                                                               *)
(***************************************************************************)
DoubleFailure ==
    /\ lastOp.op = "load_theme" /\ app
    /\ ~IsFallback(lastOp.arg)
    /\ ~ReadsOk(FileOf(lastOp.arg))
    /\ ~ReadsOk(FileOf(fallbackName))

C3_DoubleFailureReturns ==
    [][DoubleFailure' =>
         /\ CountOf(trace', "read") <= 2
         /\ CountOf(trace', "log_error") = 2
         /\ CountOf(trace', "register") = 0
         /\ available_themes' = available_themes
         /\ outcome' = "ok"]_vars

C3_Witness ==
    /\ DoubleFailure
    /\ ReadJsonFile(ThemeFolder \o <<Sep>> \o FileOf(lastOp.arg), disk).err = "ParseError"
    /\ ReadJsonFile(ThemeFolder \o <<Sep>> \o FileOf(fallbackName), disk).err = "OSError"
    /\ CountOf(trace, "read") = 2
    /\ outcome = "ok"

(***************************************************************************)
(* C4: every file load_theme asks the file accessor for, the fallback's    *)
(* included, is a direct child "<base>.json" of the theme folder, whatever *)
(* directory components the name carries.                                  *)
(***************************************************************************)
DirectChild(path) ==
    LET n == Len(ThemeFolder) + 1
    IN  /\ Len(path) > n
        /\ SubSeq(path, 1, n) = ThemeFolder \o <<Sep>>
        /\ \A i \in (n + 1)..Len(path) : path[i] # Sep
        /\ path[Len(path)] = ".json"

C4_OnlyThemeFolderChildren ==
    lastOp.op = "load_theme"
    => \A i \in EventsOf(trace, "read") :
          /\ DirectChild(trace[i].what)
          /\ \/ trace[i].what = ThemeFolder \o <<Sep>> \o FileOf(lastOp.arg)
             \/ trace[i].what = ThemeFolder \o <<Sep>> \o FileOf(fallbackName)

C4_Witness ==
    /\ lastOp.op = "load_theme"
    /\ lastOp.arg = <<"..", Sep, "..", Sep, "etc", Sep, "passwd">>
    /\ CountOf(trace, "read") = 2
    /\ trace[2].what = ThemeFolder \o <<Sep, "passwd", ".json">>

(***************************************************************************)
(* C5: ensure_default_theme is idempotent and non-destructive: a second    *)
(* call changes nothing and raises nothing, and no file that already       *)
(* exists, par.json included, is overwritten or removed.                   *)
(***************************************************************************)
C5_EnsureIdempotent ==
    [][lastOp'.op = "ensure_default_theme" =>
         /\ outcome' = "ok"
         /\ EnsureDefaultThemeRun(disk') = disk'
         /\ disk.exists =>
              \A f \in DOMAIN disk.files :
                 f \in DOMAIN disk'.files /\ disk'.files[f] = disk.files[f]]_vars

C5_Witness ==
    /\ lastOp.op = "ensure_default_theme"
    /\ OnDisk(ParJson)
    /\ disk.files[ParJson] = Broken("unparsable")

(***************************************************************************)
(* C6: load_themes is never aborted by one bad theme file: it returns      *)
(* normally, calls load_theme for every .json file of the folder, and the  *)
(* themes of every valid file are registered when it ends.                 *)
(***************************************************************************)
CalledFor(tr, f) ==
    \E i \in EventsOf(tr, "call") :
        tr[i].depth = 0 /\ tr[i].what = ThemeFolder \o <<Sep>> \o SplitExtRoot(f)

RegisteredFrom(th, f) ==
    \A m \in PresentModes(disk.files[f]) :
        /\ HasKey(th, Str(SplitExtRoot(f)) \o "_" \o m)
        /\ AttrsOf(th, Str(SplitExtRoot(f)) \o "_" \o m) = disk.files[f][m]

C6_BatchNeverAborted ==
    (IsBatch(lastOp.op) /\ app)
    => /\ outcome = "ok"
       /\ \A f \in JsonFiles :
             OnDisk(f) => /\ CalledFor(trace, f)
                          /\ WellFormed(f) => RegisteredFrom(available_themes, f)

(***************************************************************************)
(* C7: fallback recovery.  When the file of a name other than the fallback *)
(* cannot be read and the fallback file holds a valid definition, the      *)
(* failure is logged, then the fallback is read, every mode of the         *)
(* fallback definition is registered under "<fallback>_<mode>", nothing is *)
(* registered under "<name>_<mode>", and load_theme returns normally.  A   *)
(* load of the fallback name itself never starts a fallback attempt.       *)
(***************************************************************************)
FallbackRecovery ==
    /\ lastOp.op = "load_theme" /\ app
    /\ ~IsFallback(lastOp.arg)
    /\ ~ReadsOk(FileOf(lastOp.arg))
    /\ WellFormed(FileOf(fallbackName))

LoggedThenFallbackRead(tr, name, fb) ==
    \E i \in EventsOf(tr, "log_error"), j \in EventsOf(tr, "read") :
        /\ i < j
        /\ tr[i].what = <<Str(Basename(name))>>
        /\ tr[i].depth = 0
        /\ tr[j].what = ThemeFolder \o <<Sep>> \o FileOf(fb)
        /\ tr[j].depth = 1

SameUnder(th1, th2, k) ==
    /\ HasKey(th1, k) <=> HasKey(th2, k)
    /\ HasKey(th1, k) => AttrsOf(th1, k) = AttrsOf(th2, k)

C7_FallbackRecovery ==
    [][/\ FallbackRecovery' =>
            /\ outcome' = "ok"
            /\ LoggedThenFallbackRead(trace', lastOp'.arg, fallbackName)
            /\ \A m \in PresentModes(disk.files[FileOf(fallbackName)]) :
                  /\ HasKey(available_themes', Str(fallbackName) \o "_" \o m)
                  /\ AttrsOf(available_themes', Str(fallbackName) \o "_" \o m)
                        = disk.files[FileOf(fallbackName)][m]
            /\ \A m \in Modes :
                  /\ SameUnder(available_themes, available_themes',
                               Str(Basename(lastOp'.arg)) \o "_" \o m)
                  /\ \A i \in EventsOf(trace', "register") :
                        trace'[i].what # <<Str(Basename(lastOp'.arg)) \o "_" \o m>>
       /\ (lastOp'.op = "load_theme" /\ IsFallback(lastOp'.arg)) =>
            /\ CountOf(trace', "call") <= 1
            /\ \A i \in 1..Len(trace') : trace'[i].depth = 0]_vars

C7_Witness ==
    /\ FallbackRecovery
    /\ ReadJsonFile(ThemeFolder \o <<Sep>> \o FileOf(lastOp.arg), disk).err = "AccessDenied"
    /\ disk.files[FileOf(fallbackName)] = Json("absent", "v2")
    /\ HasKey(available_themes, Str(fallbackName) \o "_light")
    /\ ~HasKey(available_themes, Str(fallbackName) \o "_dark")
    /\ CountOf(trace, "register") = 1

(***************************************************************************)
(* C8: after ensure_default_theme, whatever fallback name is configured,   *)
(* the theme folder exists and holds "<fallbackName>.json".                *)
(***************************************************************************)
C8_FallbackFileSeeded ==
    lastOp.op = "ensure_default_theme"
    => OnDisk(FileOf(fallbackName))

(***************************************************************************)
(* C9: without a runtime, get_theme, list_themes, theme_select_options,    *)
(* change_theme and load_theme raise the "not initialized" error before    *)
(* any effect: no file read, no log event, no registration, and the        *)
(* registry, the active theme and the disk are as before.                  *)
(***************************************************************************)
NeedsApp ==
    {"get_theme", "list_themes", "theme_select_options", "change_theme", "load_theme"}

C9_UninitializedFailsFirst ==
    [][(lastOp'.op \in NeedsApp /\ ~app') =>
         /\ outcome' = "AppNotInitialized"
         /\ CountOf(trace', "read") = 0
         /\ CountOf(trace', "log_error") = 0
         /\ CountOf(trace', "log_fallback_failed") = 0
         /\ CountOf(trace', "register") = 0
         /\ result' = <<>>
         /\ UNCHANGED <<available_themes, active, disk, app>>]_vars

C9_Witness ==
    /\ lastOp.op = "load_theme"
    /\ ~app
    /\ WellFormed(FileOf(lastOp.arg))
    /\ outcome = "AppNotInitialized"

(***************************************************************************)
(* C10 as stated: after a successful load_theme(name), the registrations   *)
(* under "<name>_dark" and "<name>_light" are exactly those of the         *)
(* definition just read; none from an earlier load survives.               *)
(***************************************************************************)
SuccessfulLoad ==
    /\ lastOp.op = "load_theme" /\ app
    /\ outcome = "ok"
    /\ WellFormed(FileOf(lastOp.arg))

C10_ReloadReplacesAll ==
    SuccessfulLoad =>
      \A m \in Modes :
        LET k   == Str(Basename(lastOp.arg)) \o "_" \o m
            def == disk.files[FileOf(lastOp.arg)]
        IN  IF def[m] # "absent"
            THEN HasKey(available_themes, k) /\ AttrsOf(available_themes, k) = def[m]
            ELSE ~HasKey(available_themes, k)

(***************************************************************************)
(* C10 amended: keys are unique, and after a successful load_theme(name)   *)
(* every mode present in the definition just read is registered under      *)
(* "<name>_<mode>" with that definition's attributes, which replace any    *)
(* earlier ones; the registration of a mode the definition does not hold   *)
(* is left as it was, so one made by an earlier load stays.                *)
(***************************************************************************)
UniqueKeys(th) == \A i, j \in 1..Len(th) : th[i].key = th[j].key => i = j

C10_ReloadOverwritesPresentModes ==
    [][SuccessfulLoad' =>
         /\ UniqueKeys(available_themes')
         /\ \A m \in Modes :
              LET k   == Str(Basename(lastOp'.arg)) \o "_" \o m
                  def == disk.files[FileOf(lastOp'.arg)]
              IN  IF def[m] # "absent"
                  THEN /\ HasKey(available_themes', k)
                       /\ AttrsOf(available_themes', k) = def[m]
                  ELSE SameUnder(available_themes, available_themes', k)]_vars

C10_Witness ==
    /\ SuccessfulLoad
    /\ edits >= 1
    /\ disk.files[FileOf(lastOp.arg)] = Json("absent", "v2")
    /\ HasKey(available_themes, Str(Basename(lastOp.arg)) \o "_dark")
    /\ AttrsOf(available_themes, Str(Basename(lastOp.arg)) \o "_dark") = "v1"
    /\ AttrsOf(available_themes, Str(Basename(lastOp.arg)) \o "_light") = "v2"

(***************************************************************************)
(* C11: a load_theme call whose theme file is missing or malformed (absent,*)
(* rejected, unparsable, or without a mode key) logs at least one error    *)
(* before it ends, and no exception leaves load_theme or load_themes.      *)
(***************************************************************************)
Malformed(f) == ~ReadsOk(f) \/ PresentModes(disk.files[f]) = {}

C11_BadFileLoggedNeverRaised ==
    /\ (lastOp.op = "load_theme" /\ app /\ Malformed(FileOf(lastOp.arg)))
       => /\ CountOf(trace, "log_error") >= 1
          /\ outcome = "ok"
    /\ (IsBatch(lastOp.op) /\ app) => outcome = "ok"

(***************************************************************************)
(* C12: with a runtime set, list_themes returns the registered keys in the *)
(* runtime's order, and theme_select_options returns the pair (key, key)   *)
(* for each of them, in the same order and number.                         *)
(***************************************************************************)
C12_ListIsRegistryProjection ==
    /\ (lastOp.op = "list_themes" /\ app)
       => /\ outcome = "ok"
          /\ Len(result) = Len(available_themes)
          /\ \A i \in 1..Len(result) : result[i] = available_themes[i].key
    /\ (lastOp.op = "theme_select_options" /\ app)
       => /\ outcome = "ok"
          /\ Len(result) = Len(available_themes)
          /\ \A i \in 1..Len(result) :
                result[i] = <<available_themes[i].key, available_themes[i].key>>

C12_Witness ==
    /\ lastOp.op = "theme_select_options"
    /\ app
    /\ Len(result) = 4
    /\ result[1] = <<"textual-dark", "textual-dark">>
    /\ result[2] = <<"custom_light", "custom_light">>
    /\ result[4] = <<"par_light", "par_light">>

(***************************************************************************)
(* C13: the fallback recursion of load_theme has depth one: a call starts  *)
(* at most one nested load_theme, the nested call and a direct load of the *)
(* fallback name start none, and load_theme ends without exhausting the    *)
(* stack, for every configured fallback name.                              *)
(***************************************************************************)
NestedCalls(tr) == {i \in EventsOf(tr, "call") : tr[i].depth >= 1}

C13_RecursionDepthOne ==
    lastOp.op = "load_theme"
    => /\ \A i \in 1..Len(trace) : trace[i].depth <= 1
       /\ Cardinality(NestedCalls(trace)) <= 1
       /\ Str(lastOp.arg) = Str(fallbackName) => NestedCalls(trace) = {}

(***************************************************************************)
(* C14: load_themes calls load_theme exactly once for every file of the    *)
(* folder whose name ends in ".json" whatever the case, never for another  *)
(* file, and the file that call reads first is the enumerated file itself. *)
(***************************************************************************)
FirstReadsOf(tr, f) ==
    {i \in EventsOf(tr, "call") :
        /\ tr[i].depth = 0
        /\ i < Len(tr)
        /\ tr[i + 1].ev = "read"
        /\ Str(tr[i + 1].what) = Str(ThemeFolder \o <<Sep>> \o f)}

TopCalls(tr) == {i \in EventsOf(tr, "call") : tr[i].depth = 0}

C14_EachJsonFileLoadedOnce ==
    (IsBatch(lastOp.op) /\ app)
    => /\ Cardinality(TopCalls(trace)) =
            Cardinality({f \in DOMAIN disk.files : EndsWithJson(f)})
       /\ \A f \in DOMAIN disk.files :
             IF EndsWithJson(f)
             THEN Cardinality(FirstReadsOf(trace, f)) = 1
             ELSE FirstReadsOf(trace, f) = {}

(***************************************************************************)
(* C15: the theme folder is read-only except for seeding: load_theme and   *)
(* the facade operations leave the disk as it is, whether they succeed or  *)
(* fail; load_themes, set_app and ensure_default_theme change it at most   *)
(* by creating the folder and adding the bundled par.json; no operation    *)
(* modifies, renames or deletes a file that exists.                        *)
(***************************************************************************)
ReadOnlyOps == {"load_theme", "get_theme", "list_themes",
                "theme_select_options", "change_theme"}
SeedingOps  == {"set_app", "set_app_none", "load_themes", "ensure_default_theme"}

FilesBefore == IF disk.exists THEN DOMAIN disk.files ELSE {}

C15_DiskReadOnlyExceptSeeding ==
    [][/\ lastOp'.op \in ReadOnlyOps => disk' = disk
       /\ lastOp'.op \in SeedingOps
          => /\ disk'.exists
             /\ \A f \in FilesBefore :
                   f \in DOMAIN disk'.files /\ disk'.files[f] = disk.files[f]
             /\ DOMAIN disk'.files \subseteq FilesBefore \cup {ParJson}
             /\ ParJson \notin FilesBefore
                => disk'.files[ParJson] = BundledDefault]_vars

C15_Witness ==
    /\ IsBatch(lastOp.op)
    /\ outcome = "ok"
    /\ OnDisk(ParJson) /\ disk.files[ParJson] = BundledDefault
    /\ OnDisk(CustomJson) /\ disk.files[CustomJson] = Broken("oversize")
    /\ Len(trace) > 0

(***************************************************************************)
(* C16: the registry only grows: no operation removes a registered key;    *)
(* get_theme, list_themes and theme_select_options change neither the      *)
(* registry nor the active theme; change_theme changes nothing but the     *)
(* active theme; load_theme, load_themes and set_app never change the      *)
(* active theme.                                                           *)
(***************************************************************************)
QueryOps == {"get_theme", "list_themes", "theme_select_options"}
LoadOps  == {"load_theme", "load_themes", "set_app", "set_app_none"}

C16_RegistryOnlyGrows ==
    [][/\ \A i \in 1..Len(available_themes) :
             HasKey(available_themes', available_themes[i].key)
       /\ lastOp'.op \in QueryOps
          => available_themes' = available_themes /\ active' = active
       /\ lastOp'.op = "change_theme"
          => /\ available_themes' = available_themes
             /\ disk' = disk
             /\ app' = app
       /\ lastOp'.op \in LoadOps => active' = active]_vars

C16_Witness ==
    /\ lastOp.op = "load_theme"
    /\ outcome = "ok"
    /\ active = "par_dark"
    /\ CountOf(trace, "register") >= 1
    /\ HasKey(available_themes, "textual-dark")
    /\ HasKey(available_themes, "par_dark")
    /\ HasKey(available_themes, "custom_light")

====
